---------------------------- MODULE Spec2Model ----------------------------
(***************************************************************************)
(* A model of psychopy/projects/pavlovia.py: the token store               *)
(* (PavloviaTokenStorage), the session (PavloviaSession), the module-level *)
(* login helper and the project wrapper (PavloviaProject).                 *)
(*                                                                         *)
(* Python values are modelled as follows.  None is the string "None"       *)
(* (no user or token of the model is called "None").  A dict is the        *)
(* sequence of its <<key, value>> pairs in insertion order, keys unique.   *)
(* A file is a record [kind, items]: what a reader of the file finds.      *)
(* An exception is the name of its class; "none" is normal return.         *)
(***************************************************************************)
EXTENDS Integers, Sequences, FiniteSets, TLC

(* ------------------------------ bounds --------------------------------- *)

\* longest JSON object / JSON list in pavlovia.json when the module is imported
MaxStartItems == 1
\* longest JSON object / JSON list in a file the caller names
MaxFileItems == 2
\* longest list the server returns for one projects.list() query
MaxList == 2

\* project ids; 0 is the falsy one
Ids == {0, 1, 2}

Users == {"alice", "bob"}
Tokens == {"tokA", "tokB"}

None == "None"

SeqsUpTo(S, n) == UNION {[1..k -> S] : k \in 0..n}

(* --------------------------- Python helpers ---------------------------- *)

\* truth value of a token: None and the empty string are falsy
Truthy(x) == x # None /\ x # ""

\* truth value of a project id: None and 0 are falsy
TruthyId(i) == i # 0

\* k in d
DictHas(d, k) == \E i \in 1..Len(d) : d[i][1] = k

\* d[k]
DictGet(d, k) == d[CHOOSE i \in 1..Len(d) : d[i][1] = k][2]

\* d[k] = v : an existing key keeps its place, a new key goes last
DictSet(d, k, v) ==
    IF DictHas(d, k)
    THEN [i \in 1..Len(d) |-> IF d[i][1] = k THEN <<k, v>> ELSE d[i]]
    ELSE Append(d, <<k, v>>)

\* the mapping a dict stands for (dict equality in Python ignores order)
AsMap(d) == [k \in {d[i][1] : i \in 1..Len(d)} |-> DictGet(d, k)]

(* ------------------------------ files ---------------------------------- *)

\* one element of a JSON list or one member of a JSON object
PairItem(k, v) == [t |-> "pair", k |-> k, v |-> v]
\* a list element that is no sequence at all (a number, null, true)
ScalarItem == [t |-> "scalar", k |-> "", v |-> ""]
\* a list element that is a sequence of the wrong length (a string of three
\* characters, a list of one element)
ShortItem == [t |-> "short", k |-> "", v |-> ""]

PairItems == {PairItem(k, v) : k \in Users, v \in Tokens}

File(kind, items) == [kind |-> kind, items |-> items]

\* os.path.isfile(filename) is false
MissingFile == File("missing", <<>>)
\* bytes that are no JSON text
GarbageFile == File("garbage", <<>>)
\* a JSON number (null and true behave alike under dict.update)
NumberFile == File("number", <<>>)
\* the JSON string ""
EmptyStringFile == File("emptystring", <<>>)
\* a non-empty JSON string
StringFile == File("string", <<>>)

ObjectFiles(n) == {File("object", s) : s \in SeqsUpTo(PairItems, n)}
ListFiles(n) ==
    {File("list", s) :
        s \in SeqsUpTo(PairItems \cup {ScalarItem, ShortItem}, n)}

\* the token file as the specification describes it
WellFormed(f) == f.kind = "object"

\* what a file may hold, with at most n members or elements
Files(n) ==
    {MissingFile, GarbageFile, NumberFile, EmptyStringFile, StringFile}
        \cup ObjectFiles(n) \cup ListFiles(n)

(* -------------------------- PavloviaTokenStorage ----------------------- *)

\* the outcome of an operation on a store
Outcome(d, err) == [d |-> d, err |-> err]

\* dict.update(seq) for a sequence of elements, one element at a time: what
\* was inserted before a bad element stays inserted
RECURSIVE UpdateFromItems(_, _)
UpdateFromItems(d, items) ==
    IF items = <<>> THEN Outcome(d, "none")
    ELSE LET it == Head(items) IN
         CASE it.t = "pair" ->
                  UpdateFromItems(DictSet(d, it.k, it.v), Tail(items))
           [] it.t = "scalar" -> Outcome(d, "TypeError")
           [] it.t = "short" -> Outcome(d, "ValueError")

\* self.update(json.load(f))
UpdateFromJson(d, f) ==
    CASE f.kind = "garbage" -> Outcome(d, "ValueError")
      [] f.kind = "number" -> Outcome(d, "TypeError")
      [] f.kind = "emptystring" -> Outcome(d, "none")
      [] f.kind = "string" -> Outcome(d, "ValueError")
      [] f.kind = "object" -> UpdateFromItems(d, f.items)
      [] f.kind = "list" -> UpdateFromItems(d, f.items)

\* load with the update left out: the file is opened and nothing is taken
loadWithoutUpdate(d, f) == Outcome(d, "none")

\* PavloviaTokenStorage.load on a store holding d, reading a file f
load(d, f) ==
    IF f.kind = "missing" THEN Outcome(d, "none")
    ELSE LET r == UpdateFromJson(d, f) IN
         IF r.err = "ValueError" THEN Outcome(r.d, "none") ELSE r

\* json.dumps(self): the members of the object in the dict's order
json_dumps(d) ==
    File("object", [i \in 1..Len(d) |-> PairItem(d[i][1], d[i][2])])

\* PavloviaTokenStorage.save: the file it leaves behind
save(d) == json_dumps(d)

\* PavloviaTokenStorage(): an empty dict, then load() of the default file
NewTokenStorage(f) == load(<<>>, f)


(* ------------------------------ state ---------------------------------- *)

VARIABLES
    session,       \* the PavloviaSession the module calls currentSession
    tokenStorage,  \* the module's PavloviaTokenStorage, loaded at import
    tokenFile,     \* <userPrefsDir>/pavlovia.json
    pavloviaUser,  \* prefs.appData['projects']['pavloviaUser']
    store,         \* a PavloviaTokenStorage held by the caller
    otherFile,     \* a file the caller names in load(filename)/save(filename)
    serverOwned,   \* ids of what the server lists for projects.list(owned=True)
    serverMember,  \* ids of what it lists for list(owned=False, membership=True)
    exchange,      \* history: how the session's latest gitlab.auth() ended
    hist,          \* history: what the caller's store saved and loaded
    last           \* history: the latest call, its arguments, its outcome
                   \* and whether it changed pavlovia.json

vars ==
    <<session, tokenStorage, tokenFile, pavloviaUser, store, otherFile,
      serverOwned, serverMember, exchange, hist, last>>

sessionVars == <<session, tokenStorage, tokenFile, pavloviaUser, exchange>>
storeVars == <<store, otherFile, hist>>
serverVars == <<serverOwned, serverMember>>

(* ---------------------------- gitlab client ---------------------------- *)

\* self.gitlab = None
NoGitlab == [kind |-> "None", user |-> None]

\* gitlab.Gitlab(rootURL, oauth_token=token), before auth(): the handle is
\* opaque, the module reads only its user and its projects
Gitlab(token) == [kind |-> "Gitlab", user |-> None]

HasHandle(s) == s.gitlab.kind = "Gitlab"

\* how the server may answer gitlab.auth() for a token: it may reject any
\* token, and it accepts only tokens it issued, each as some user
AuthReplies(token) ==
    {[ok |-> FALSE, user |-> None]}
        \cup (IF token \in Tokens
              THEN {[ok |-> TRUE, user |-> u] : u \in Users}
              ELSE {})

(* --------------------------- PavloviaSession --------------------------- *)

\* the fields __init__ sets before it calls setToken
NewSessionFields(remember_me) ==
    [token |-> None,
     username |-> None,
     remember_me |-> remember_me,
     authenticated |-> FALSE,
     currentProject |-> <<>>,
     gitlab |-> NoGitlab]

\* the result of a call of setToken: the session, the token file, the
\* exception that left the call, and whether gitlab.auth() ran and how
SetTokenResult(s, f, err, auth) ==
    [s |-> s, file |-> f, err |-> err, auth |-> auth]

\* lines 174-176 with save() and the assignment in the wrong order
RememberTokenSaveFirst(s, token, f) ==
    LET tokens == NewTokenStorage(f) IN
    IF tokens.err # "none"
    THEN SetTokenResult(s, f, tokens.err, "ok")
    ELSE SetTokenResult(s, save(tokens.d), "none", "ok")

\* lines 174-176: tokens = PavloviaTokenStorage(); tokens[username] = token;
\* tokens.save()
RememberToken(s, token, f) ==
    LET tokens == NewTokenStorage(f) IN
    IF tokens.err # "none"
    THEN SetTokenResult(s, f, tokens.err, "ok")
    ELSE SetTokenResult(s, save(DictSet(tokens.d, s.username, token)),
                        "none", "ok")

\* PavloviaSession.setToken(token) on session s, the server answering reply
setToken(s, token, reply, f) ==
    LET s1 == [s EXCEPT !.token = token] IN
    IF ~Truthy(token) THEN SetTokenResult(s1, f, "none", "none")
    ELSE LET s2 == [s1 EXCEPT !.gitlab = Gitlab(token)] IN
         IF ~reply.ok
         THEN SetTokenResult(s2, f, "GitlabAuthenticationError", "failed")
         ELSE LET s3 == [s2 EXCEPT !.gitlab.user = reply.user,
                                   !.username = reply.user] IN
              IF s3.remember_me
              THEN RememberToken(s3, token, f)
              ELSE SetTokenResult(s3, f, "none", "ok")

\* the property PavloviaSession.user
user(s) == IF HasHandle(s) THEN s.gitlab.user ELSE None

\* login without the lookup in tokenStorage
LoginTokenLiteral(x) == x

\* the token login hands to setToken
LoginToken(x) ==
    IF DictHas(tokenStorage, x) THEN DictGet(tokenStorage, x) ELSE x

\* what "raise x" raises: x when x is an exception class, and the
\* interpreter's TypeError when it is not
ExceptionClasses ==
    {"TypeError", "ValueError", "AttributeError", "NotImplementedError",
     "GitlabAuthenticationError", "GitlabGetError", "GitlabListError"}
Raise(x) == IF x \in ExceptionClasses THEN x ELSE "TypeError"

\* the object createProject and applyChanges raise (lines 99 and 181)
RaisedByCreateProject == "NotImplemented"
RaisedByApplyChanges == "NotImplemented"

(* --------------------------- PavloviaProject --------------------------- *)

\* the parameters of PavloviaProject.__init__ after self (line 234)
ProjectInitParams == <<"proj">>

\* whether a call with n positional arguments and the keyword arguments kw
\* binds to the parameters params, none of which has a default
CallBinds(params, n, kw) ==
    /\ n <= Len(params)
    /\ kw = {params[i] : i \in (n + 1)..Len(params)}

\* the ids the server resolves in projects.get(id): those of the projects
\* it lists for the user
ResolvesRemotely(id) ==
    \/ \E i \in 1..Len(serverOwned) : serverOwned[i] = id
    \/ \E i \in 1..Len(serverMember) : serverMember[i] = id

\* PavloviaProject(proj) for a bare id (lines 237-239): the project, as the
\* sequence of its id, and the exception that left the constructor
ProjectFromBareId(id) ==
    IF ~HasHandle(session) THEN [proj |-> <<>>, err |-> "AttributeError"]
    ELSE IF ~ResolvesRemotely(id) THEN [proj |-> <<>>, err |-> "GitlabGetError"]
    ELSE [proj |-> <<id>>, err |-> "none"]

\* the loop without the test "proj.id not in projIDs"
RECURSIVE MergeProjectsNoDedup(_, _)
MergeProjectsNoDedup(projIDs, rest) ==
    IF rest = <<>> THEN projIDs
    ELSE LET id == Head(rest) IN
         IF TruthyId(id)
         THEN MergeProjectsNoDedup(Append(projIDs, id), Tail(rest))
         ELSE MergeProjectsNoDedup(projIDs, Tail(rest))

\* the loop of findUserProjects over own+group (lines 145-151): projs as the
\* sequence of the ids of the projects wrapped
RECURSIVE MergeProjects(_, _)
MergeProjects(projIDs, rest) ==
    IF rest = <<>> THEN projIDs
    ELSE LET id == Head(rest) IN
         IF TruthyId(id) /\ ~(\E i \in 1..Len(projIDs) : projIDs[i] = id)
         THEN MergeProjects(Append(projIDs, id), Tail(rest))
         ELSE MergeProjects(projIDs, Tail(rest))

(* ------------------------------ history -------------------------------- *)

NoCall ==
    [op |-> "import", arg |-> None, token |-> None, flag |-> FALSE,
     remember |-> TRUE, auth |-> "none", err |-> "none",
     changed |-> FALSE, id |-> 0, out |-> <<>>]

\* the mapping written by a member sequence of a JSON object, as a reader
\* of the text understands it: of two members with one key the later counts
FileMap(f) ==
    LET n == Len(f.items)
        at(k) == CHOOSE i \in 1..n :
                     /\ f.items[i].k = k
                     /\ \A j \in (i + 1)..n : f.items[j].k # k
    IN [k \in {f.items[i].k : i \in 1..n} |-> f.items[at(k)].v]

Restrict(m, keys) == [k \in (DOMAIN m) \cap keys |-> m[k]]

\* saved: nothing saved to otherFile yet (<<>>), or the one mapping the
\* latest save() wrote; carried: the entries the store took from otherFile
\* at its latest load() that no assignment has touched since
NoHist == [saved |-> <<>>, carried |-> <<>>]

NextExchange(r) == IF r.auth = "none" THEN exchange ELSE r.auth

(* ------------------------------- Init ---------------------------------- *)

\* the token files with which "import pavlovia" succeeds (line 300)
ImportableFiles ==
    {f \in Files(MaxStartItems) : NewTokenStorage(f).err = "none"}

\* PavloviaSession(remember_me=remember_me), the token left to default
AnonymousSession(remember_me, f) ==
    setToken(NewSessionFields(remember_me), None,
             [ok |-> FALSE, user |-> None], f).s

\* the state after import (lines 300-301) with pavlovia.json holding f and
\* currentSession an anonymous session
InitWith(f, remember_me) ==
    /\ tokenFile = f
    /\ tokenStorage = NewTokenStorage(f).d
    /\ session = AnonymousSession(remember_me, f)
    /\ pavloviaUser = None
    /\ exchange = "none"
    /\ store = <<>>
    /\ hist = NoHist
    /\ last = NoCall

Init ==
    /\ \E f \in ImportableFiles : InitWith(f, TRUE)
    /\ otherFile = MissingFile
    /\ serverOwned = <<>>
    /\ serverMember = <<>>

(* ---------------------------- session actions -------------------------- *)

TokenArgs == Tokens \cup {"", None}
LoginArgs == Users \cup Tokens \cup {"", None}

\* session.setToken(token)
SetToken(token, reply) ==
    \E r \in {setToken(session, token, reply, tokenFile)} :
    /\ session' = r.s
    /\ tokenFile' = r.file
    /\ exchange' = NextExchange(r)
    /\ last' = [NoCall EXCEPT !.op = "setToken", !.arg = token,
                              !.token = token,
                              !.remember = session.remember_me,
                              !.auth = r.auth, !.err = r.err,
                              !.changed = (r.file # tokenFile)]
    /\ UNCHANGED <<tokenStorage, pavloviaUser, storeVars, serverVars>>

\* login(tokenOrUsername, rememberMe)
Login(x, rememberMe, reply) ==
    \E token \in {LoginToken(x)} :
    \E r \in {setToken(session, token, reply, tokenFile)} :
    \E u \in {user(r.s)} :
    \E err \in {IF r.err # "none" THEN r.err
                ELSE IF u = None THEN "AttributeError"
                ELSE "none"} :
    /\ session' = r.s
    /\ tokenFile' = r.file
    /\ exchange' = NextExchange(r)
    /\ pavloviaUser' = IF err = "none" THEN u ELSE pavloviaUser
    /\ last' = [NoCall EXCEPT !.op = "login", !.arg = x, !.token = token,
                              !.flag = rememberMe,
                              !.remember = session.remember_me,
                              !.auth = r.auth, !.err = err,
                              !.changed = (r.file # tokenFile)]
    /\ UNCHANGED <<tokenStorage, storeVars, serverVars>>

\* currentSession = PavloviaSession(token, remember_me): the name is bound
\* only when __init__ returns
NewSession(token, remember_me, reply) ==
    \E r \in {setToken(NewSessionFields(remember_me), token, reply,
                        tokenFile)} :
    /\ session' = IF r.err = "none" THEN r.s ELSE session
    /\ exchange' = IF r.err = "none" THEN r.auth ELSE exchange
    /\ tokenFile' = r.file
    /\ last' = [NoCall EXCEPT !.op = "__init__", !.arg = token,
                              !.token = token, !.flag = remember_me,
                              !.remember = remember_me,
                              !.auth = r.auth, !.err = r.err,
                              !.changed = (r.file # tokenFile)]
    /\ UNCHANGED <<tokenStorage, pavloviaUser, storeVars, serverVars>>

\* session.createProject(...)
CreateProject ==
    /\ last' = [NoCall EXCEPT !.op = "createProject",
                              !.err = Raise(RaisedByCreateProject)]
    /\ UNCHANGED <<sessionVars, storeVars, serverVars>>

\* session.applyChanges()
ApplyChanges ==
    /\ last' = [NoCall EXCEPT !.op = "applyChanges",
                              !.err = Raise(RaisedByApplyChanges)]
    /\ UNCHANGED <<sessionVars, storeVars, serverVars>>

(* ---------------------------- project actions -------------------------- *)

\* session.openProject(projID): PavloviaProject(session=self, id=projID)
OpenProject(projID) ==
    \E r \in {IF CallBinds(ProjectInitParams, 0, {"session", "id"})
               THEN ProjectFromBareId(projID)
               ELSE [proj |-> <<>>, err |-> "TypeError"]} :
    /\ session' = IF r.err = "none"
                  THEN [session EXCEPT !.currentProject = r.proj]
                  ELSE session
    /\ last' = [NoCall EXCEPT !.op = "openProject", !.id = projID,
                              !.err = r.err, !.out = r.proj]
    /\ UNCHANGED <<tokenStorage, tokenFile, pavloviaUser, exchange,
                   storeVars, serverVars>>

\* session.projectFromID(id): PavloviaProject(id)
ProjectFromID(id) ==
    \E r \in {IF ~TruthyId(id) THEN [proj |-> <<>>, err |-> "none"]
               ELSE IF CallBinds(ProjectInitParams, 1, {})
               THEN ProjectFromBareId(id)
               ELSE [proj |-> <<>>, err |-> "TypeError"]} :
    /\ last' = [NoCall EXCEPT !.op = "projectFromID", !.id = id,
                              !.err = r.err, !.out = r.proj]
    /\ UNCHANGED <<sessionVars, storeVars, serverVars>>

\* session.findUserProjects(), the server answering both queries (ok) or
\* refusing one
FindUserProjects(ok) ==
    \E err \in {IF ~HasHandle(session) THEN "AttributeError"
                 ELSE IF ~ok THEN "GitlabListError"
                 ELSE "none"} :
    /\ last' = [NoCall EXCEPT
                   !.op = "findUserProjects", !.err = err,
                   !.out = IF err = "none"
                           THEN MergeProjects(<<>>, serverOwned \o serverMember)
                           ELSE <<>>]
    /\ UNCHANGED <<sessionVars, storeVars, serverVars>>

Next ==
    \/ \E t \in TokenArgs : \E reply \in AuthReplies(t) : SetToken(t, reply)
    \/ \E x \in LoginArgs, m \in BOOLEAN :
           \E reply \in AuthReplies(LoginToken(x)) : Login(x, m, reply)
    \/ \E t \in TokenArgs, m \in BOOLEAN :
           \E reply \in AuthReplies(t) : NewSession(t, m, reply)

Spec == Init /\ [][Next]_vars

(* ----------------------------- store actions --------------------------- *)

\* store = PavloviaTokenStorage()
NewStore ==
    \E r \in {NewTokenStorage(tokenFile)} :
    /\ store' = IF r.err = "none" THEN r.d ELSE store
    /\ hist' = IF r.err = "none" THEN [hist EXCEPT !.carried = <<>>] ELSE hist
    /\ last' = [NoCall EXCEPT !.op = "PavloviaTokenStorage", !.err = r.err]
    /\ UNCHANGED <<sessionVars, otherFile, serverVars>>

\* store.load(filename)
StoreLoad ==
    \E r \in {load(store, otherFile)} :
    /\ store' = r.d
    /\ hist' = [hist EXCEPT !.carried = IF WellFormed(otherFile)
                                        THEN FileMap(otherFile)
                                        ELSE <<>>]
    /\ last' = [NoCall EXCEPT !.op = "load", !.flag = (store = <<>>),
                              !.err = r.err]
    /\ UNCHANGED <<sessionVars, otherFile, serverVars>>

\* store[k] = v
StoreSetItem(k, v) ==
    /\ store' = DictSet(store, k, v)
    /\ hist' = [hist EXCEPT
                   !.carried = Restrict(@, (DOMAIN @) \ {k})]
    /\ last' = [NoCall EXCEPT !.op = "setitem", !.arg = k, !.token = v]
    /\ UNCHANGED <<sessionVars, otherFile, serverVars>>

\* store.save(filename)
StoreSave ==
    /\ otherFile' = save(store)
    /\ hist' = [hist EXCEPT !.saved = <<AsMap(store)>>]
    /\ last' = [NoCall EXCEPT !.op = "save"]
    /\ UNCHANGED <<sessionVars, store, serverVars>>

\* the token store on its own, with a file of any content to load
StoreInit ==
    /\ InitWith(MissingFile, TRUE)
    /\ serverOwned = <<>>
    /\ serverMember = <<>>
    /\ otherFile \in Files(MaxFileItems)

StoreNext ==
    \/ NewStore
    \/ StoreLoad
    \/ \E k \in Users, v \in Tokens : StoreSetItem(k, v)
    \/ StoreSave

StoreSpec == StoreInit /\ [][StoreNext]_vars

\* a session that persists no token, and a server with projects to list
ProjectInit ==
    /\ InitWith(MissingFile, FALSE)
    /\ otherFile = MissingFile
    /\ serverOwned \in SeqsUpTo(Ids, MaxList)
    /\ serverMember \in SeqsUpTo(Ids, MaxList)

ProjectNext ==
    \/ \E t \in TokenArgs : \E reply \in AuthReplies(t) : SetToken(t, reply)
    \/ \E id \in Ids : OpenProject(id)
    \/ \E id \in Ids : ProjectFromID(id)
    \/ \E ok \in BOOLEAN : FindUserProjects(ok)
    \/ CreateProject
    \/ ApplyChanges

ProjectSpec == ProjectInit /\ [][ProjectNext]_vars


(* ------------------------------- claims -------------------------------- *)

\* the calls that run setToken
SetTokenCalls == {"setToken", "login", "__init__"}

\* C1: in every reachable state the flag authenticated is true exactly when
\* the session holds a connection handle and its latest token exchange
\* succeeded.
C1_AuthenticatedIffExchanged ==
    session.authenticated <=> (HasHandle(session) /\ exchange = "ok")

\* C2: a call of setToken with a truthy token on a session whose remember_me
\* is set, the authentication succeeding, leaves a token file from which a
\* fresh store reads that token under the authenticated username; a call
\* whose authentication fails, or whose session has remember_me unset, or
\* whose token is falsy, leaves the token file as it was.
C2_SetTokenPersists ==
    last.op \in SetTokenCalls =>
        IF Truthy(last.token) /\ last.remember /\ last.auth = "ok"
        THEN LET fresh == NewTokenStorage(tokenFile) IN
             /\ last.err = "none"
             /\ fresh.err = "none"
             /\ session.username \in Users
             /\ session.username \in DOMAIN AsMap(fresh.d)
             /\ AsMap(fresh.d)[session.username] = last.token
        ELSE ~last.changed

C2_Witness ==
    /\ last.op = "setToken"
    /\ Truthy(last.token) /\ last.remember /\ last.auth = "ok"
    /\ tokenFile.kind = "object"
    /\ Len(tokenFile.items) = 2
    /\ \E i \in 1..2 : /\ tokenFile.items[i].k = session.username
                       /\ tokenFile.items[i].v = last.token

\* C3: login(x) hands setToken the token stored for x when x is a username
\* of the token store, and x itself otherwise.
C3_LoginResolvesToken ==
    last.op = "login" =>
        LET known == AsMap(tokenStorage) IN
        session.token = IF last.arg \in DOMAIN known
                        THEN known[last.arg]
                        ELSE last.arg

C3_Witness ==
    /\ last.op = "login"
    /\ last.arg \in DOMAIN AsMap(tokenStorage)
    /\ session.token \in Tokens
    /\ last.auth = "ok"

\* C4: for an id that resolves remotely (here: a truthy id of a project the
\* server lists, asked for through an authenticated handle), openProject(id)
\* returns a Project for that id, and the session's currentProject is then
\* that Project.
C4_OpenProjectSetsCurrent ==
    (last.op = "openProject" /\ user(session) \in Users
        /\ TruthyId(last.id) /\ ResolvesRemotely(last.id)) =>
        /\ last.err = "none"
        /\ last.out = <<last.id>>
        /\ session.currentProject = <<last.id>>

\* C5: createProject and applyChanges always end in an error of the
\* NotImplemented class and leave the session's state unchanged.
C5_UnimplementedRaiseNotImplemented ==
    [][last'.op \in {"createProject", "applyChanges"} =>
          /\ last'.err = "NotImplementedError"
          /\ UNCHANGED <<sessionVars, storeVars>>]_vars

\* where x first occurs in seq
FirstIndex(seq, x) ==
    CHOOSE i \in 1..Len(seq) :
        seq[i] = x /\ \A j \in 1..(i - 1) : seq[j] # x

\* C6: findUserProjects returns one Project per distinct truthy id of
\* owned + member, each id once, in the order of first occurrence.
C6_FindUserProjectsMerges ==
    (last.op = "findUserProjects" /\ last.err = "none") =>
        LET all == serverOwned \o serverMember
            out == last.out
        IN
        /\ {out[i] : i \in 1..Len(out)}
               = {all[i] : i \in {j \in 1..Len(all) : TruthyId(all[j])}}
        /\ \A i, j \in 1..Len(out) : i # j => out[i] # out[j]
        /\ \A i, j \in 1..Len(out) :
               i < j => FirstIndex(all, out[i]) < FirstIndex(all, out[j])

C6_Witness ==
    /\ last.op = "findUserProjects" /\ last.err = "none"
    /\ Len(last.out) = 2
    /\ \E i \in 1..Len(serverOwned), j \in 1..Len(serverMember) :
           serverOwned[i] = serverMember[j] /\ TruthyId(serverOwned[i])
    /\ \E i \in 1..Len(serverOwned) : ~TruthyId(serverOwned[i])

\* C7: load() into an empty store from the file a save() wrote yields the
\* mapping saved; and the entries a store took from a file by load() that no
\* assignment has touched since are in the file its save() writes, unchanged.
C7_SaveLoadRoundTrip ==
    /\ (last.op = "load" /\ last.flag /\ hist.saved # <<>>) =>
           /\ last.err = "none"
           /\ AsMap(store) = hist.saved[1]
    /\ last.op = "save" =>
           /\ WellFormed(otherFile)
           /\ \A k \in DOMAIN hist.carried :
                  /\ k \in DOMAIN FileMap(otherFile)
                  /\ FileMap(otherFile)[k] = hist.carried[k]

C7_Witness ==
    /\ last.op = "load" /\ last.flag /\ hist.saved # <<>>
    /\ Len(store) = 2
    /\ hist.carried = AsMap(store)

\* C8: load() on an empty store from a file that is missing, or that holds
\* anything but a JSON object, raises nothing and leaves the store empty.
C8_LoadToleratesMalformed ==
    (last.op = "load" /\ last.flag /\ ~WellFormed(otherFile)) =>
        /\ last.err = "none"
        /\ store = <<>>

\* C9: a session that holds a truthy token still holds one after any call
\* of setToken.
C9_NeverBackToAnonymous ==
    [][(Truthy(session.token) /\ last'.op = "setToken") =>
          Truthy(session'.token)]_vars

\* C10: login(token, rememberMe=False) leaves the token file unchanged.
C10_LoginWithoutRememberKeepsFile ==
    [][(last'.op = "login" /\ ~last'.flag) => tokenFile' = tokenFile]_vars

=============================================================================
